---- MODULE Spec2Model ----
(***************************************************************************)
(* Model of src/main.py: an in-memory product / order service.  The state  *)
(* is the two module-level dictionaries, the request being handled and the *)
(* response it produced.  JSON values are modelled with their Python types *)
(* (bool is a subclass of int, NaN is a float), text as sequences of code  *)
(* points.                                                                 *)
(***************************************************************************)
EXTENDS Integers, Sequences, FiniteSets, TLC

\* products, orders: the two module-level dictionaries, identifier -> record.
\* req, resp: the request being handled and the response returned for it.
\* issued: every value uuid.uuid4() has returned so far.
\* deleted: every key `del products[product_id]` has removed so far.
VARIABLES products, orders, issued, deleted, req, resp

vars == <<products, orders, issued, deleted, req, resp>>

\* Number of identifiers uuid.uuid4() can hand out in one run of the model.
MaxUUIDs == 2

(***************************************************************************)
(* JSON values as Python objects.  t is the Python type, s the text of a   *)
(* str, n the numeric value (a float's n is in tenths), d the items of a   *)
(* dict.                                                                   *)
(***************************************************************************)
NoItems == [k \in {} |-> 0]

JStr(text) == [t |-> "str", s |-> text, n |-> 0, d |-> NoItems]

JInt(i) == [t |-> "int", s |-> <<>>, n |-> i, d |-> NoItems]

JFloat(tenths) == [t |-> "float", s |-> <<>>, n |-> tenths, d |-> NoItems]

JNaN == [t |-> "float_nan", s |-> <<>>, n |-> 0, d |-> NoItems]

JBool(b) == [t |-> "bool", s |-> <<>>, n |-> IF b THEN 1 ELSE 0, d |-> NoItems]

JNull == [t |-> "NoneType", s |-> <<>>, n |-> 0, d |-> NoItems]

JDict(items) == [t |-> "dict", s |-> <<>>, n |-> 0, d |-> items]

\* A request body that request.json cannot parse: reading it raises.
Unparseable == [t |-> "unparseable", s |-> <<>>, n |-> 0, d |-> NoItems]

\* isinstance(v, dict), isinstance(v, str), isinstance(v, int),
\* isinstance(v, (int, float)): bool is a subclass of int.
isinstance_dict(v) == v.t = "dict"

isinstance_str(v) == v.t = "str"

isinstance_int(v) == v.t \in {"int", "bool"}

isinstance_int_float(v) == v.t \in {"int", "bool", "float", "float_nan"}

\* v <= 0 on a Python number: every comparison with NaN is False.
le_zero(v) == v.t # "float_nan" /\ v.n <= 0

\* Code points str.strip() removes (those for which str.isspace() is true).
Whitespace ==
    (9..13) \cup (28..32) \cup {133, 160, 5760} \cup (8192..8202)
    \cup {8232, 8233, 8239, 8287, 12288}

RECURSIVE lstrip(_)
lstrip(text) ==
    IF text # <<>> /\ Head(text) \in Whitespace THEN lstrip(Tail(text)) ELSE text

RECURSIVE rstrip(_)
rstrip(text) ==
    IF text # <<>> /\ text[Len(text)] \in Whitespace
    THEN rstrip(SubSeq(text, 1, Len(text) - 1))
    ELSE text

strip(text) == rstrip(lstrip(text))

\* field in d, d[field]
has_key(v, field) == field \in DOMAIN v.d

\* The dictionary m with m[key] = value, and with key deleted.
SetItem(m, key, value) ==
    [k \in DOMAIN m \cup {key} |-> IF k = key THEN value ELSE m[k]]

DelItem(m, key) == [k \in DOMAIN m \ {key} |-> m[k]]

(***************************************************************************)
(* Messages.                                                               *)
(***************************************************************************)
NoError == "no error"

ProductShapeMsg == "Product must be a dictionary with 'name' and 'price' fields"

ProductNameMsg == "Product name must be a non-empty string"

ProductPriceMsg == "Product price must be a positive number"

OrderShapeMsg == "Order must be a dictionary with 'product_id' and 'quantity' fields"

OrderProductMsg == "Invalid product ID"

OrderQuantityMsg == "Order quantity must be a positive integer"

UnexpectedMsg == "An unexpected error occurred"

(***************************************************************************)
(* validate_product / validate_order: the message of the InvalidInputError *)
(* raised, or NoError.                                                     *)
(***************************************************************************)
validate_product_price_first(product) ==
    IF ~isinstance_dict(product) \/ ~(has_key(product, "name") /\ has_key(product, "price"))
    THEN ProductShapeMsg
    ELSE IF ~isinstance_int_float(product.d["price"]) \/ le_zero(product.d["price"])
    THEN ProductPriceMsg
    ELSE IF ~isinstance_str(product.d["name"]) \/ strip(product.d["name"].s) = <<>>
    THEN ProductNameMsg
    ELSE NoError

validate_product(product) ==
    IF ~isinstance_dict(product) \/ ~(has_key(product, "name") /\ has_key(product, "price"))
    THEN ProductShapeMsg
    ELSE IF ~isinstance_str(product.d["name"]) \/ strip(product.d["name"].s) = <<>>
    THEN ProductNameMsg
    ELSE IF ~isinstance_int_float(product.d["price"]) \/ le_zero(product.d["price"])
    THEN ProductPriceMsg
    ELSE NoError

validate_order_ever_created(order) ==
    IF ~isinstance_dict(order) \/ ~(has_key(order, "product_id") /\ has_key(order, "quantity"))
    THEN OrderShapeMsg
    ELSE IF ~isinstance_str(order.d["product_id"])
            \/ order.d["product_id"].s \notin (DOMAIN products \cup deleted)
    THEN OrderProductMsg
    ELSE IF ~isinstance_int(order.d["quantity"]) \/ le_zero(order.d["quantity"])
    THEN OrderQuantityMsg
    ELSE NoError

validate_order(order) ==
    IF ~isinstance_dict(order) \/ ~(has_key(order, "product_id") /\ has_key(order, "quantity"))
    THEN OrderShapeMsg
    ELSE IF ~isinstance_str(order.d["product_id"])
            \/ order.d["product_id"].s \notin DOMAIN products
    THEN OrderProductMsg
    ELSE IF ~isinstance_int(order.d["quantity"]) \/ le_zero(order.d["quantity"])
    THEN OrderQuantityMsg
    ELSE NoError

(***************************************************************************)
(* uuid.uuid4(): 122 random bits, so a value never comes back; the values  *)
(* it can return next are those it has not returned yet.                   *)
(***************************************************************************)
UUID(i) == <<117, 48 + i>>

UUIDs == {UUID(i) : i \in 1..MaxUUIDs}

uuid4_reuse == UUIDs \ (DOMAIN products \cup DOMAIN orders)

uuid4 == UUIDs \ issued

(***************************************************************************)
(* Requests and responses.                                                 *)
(***************************************************************************)
NoPath == <<>>

Request(op, body, path) == [op |-> op, body |-> body, path |-> path]

\* jsonify({"message": ..., "<kind>_id": ...}), status
Created(message, id) ==
    [status |-> 201, key |-> "message", text |-> message, id |-> id, listing |-> NoItems]

\* jsonify({"message": ...}), 200
Ok(message) ==
    [status |-> 200, key |-> "message", text |-> message, id |-> NoPath, listing |-> NoItems]

\* jsonify({"error": ...}), status
Error(status, message) ==
    [status |-> status, key |-> "error", text |-> message, id |-> NoPath, listing |-> NoItems]

\* jsonify(mapping), 200
Listing(mapping) ==
    [status |-> 200, key |-> "listing", text |-> "", id |-> NoPath, listing |-> mapping]

(***************************************************************************)
(* Inputs.                                                                 *)
(***************************************************************************)
TextA == <<97>>

NameValues ==
    {JStr(TextA), JStr(<<32, 97, 32>>), JStr(<<>>), JStr(<<32>>), JStr(<<9, 160>>),
     JInt(1), JBool(TRUE), JNull}

PriceValues ==
    {JInt(1), JFloat(5), JBool(TRUE), JNaN, JInt(0), JInt(-1), JFloat(0), JFloat(-5),
     JBool(FALSE), JStr(<<49>>), JNull}

ProductBodies ==
    {JNull, JStr(TextA), JInt(1), Unparseable,
     JDict(NoItems), JDict([name |-> JStr(TextA)]), JDict([price |-> JInt(1)])}
    \cup {JDict([name |-> nm, price |-> JInt(1)]) : nm \in NameValues}
    \cup {JDict([name |-> JStr(TextA), price |-> pr]) : pr \in PriceValues}
    \cup {JDict([name |-> JStr(<<32>>), price |-> pr]) : pr \in {JInt(0), JBool(TRUE), JNull}}

ProductIdValues == {JStr(u) : u \in UUIDs} \cup {JStr(TextA), JInt(1), JNull}

QuantityValues ==
    {JInt(2), JBool(TRUE), JInt(0), JInt(-1), JFloat(10), JFloat(15), JBool(FALSE),
     JStr(<<50>>), JNull}

OrderBodies ==
    {JNull, JInt(1), Unparseable,
     JDict(NoItems), JDict([product_id |-> JStr(UUID(1))]), JDict([quantity |-> JInt(2)])}
    \cup {JDict([product_id |-> p, quantity |-> q]) : p \in ProductIdValues, q \in QuantityValues}

\* <product_id> / <order_id> of the URL: any non-empty text.
Paths == UUIDs \cup {TextA}

(***************************************************************************)
(* State after import: both dictionaries empty, nothing handled yet.       *)
(***************************************************************************)
Init ==
    /\ products = NoItems
    /\ orders = NoItems
    /\ issued = {}
    /\ deleted = {}
    /\ req = Request("none", JNull, NoPath)
    /\ resp = Error(0, "")

(***************************************************************************)
(* POST /products                                                          *)
(***************************************************************************)
add_product(body) ==
    /\ req' = Request("add_product", body, NoPath)
    /\ IF body = Unparseable
       THEN /\ resp' = Error(500, UnexpectedMsg)
            /\ UNCHANGED <<products, orders, issued, deleted>>
       ELSE IF validate_product(body) # NoError
       THEN /\ resp' = Error(400, validate_product(body))
            /\ UNCHANGED <<products, orders, issued, deleted>>
       ELSE \E product_id \in uuid4 :
            /\ products' = SetItem(products, product_id, body)
            /\ issued' = issued \cup {product_id}
            /\ resp' = Created("Product added successfully", product_id)
            /\ UNCHANGED <<orders, deleted>>

(***************************************************************************)
(* DELETE /products/<product_id>                                           *)
(***************************************************************************)
remove_product_keep(product_id) ==
    /\ req' = Request("remove_product", JNull, product_id)
    /\ IF product_id \notin DOMAIN products
       THEN /\ resp' = Error(404, "Product not found")
            /\ UNCHANGED <<products, orders, issued, deleted>>
       ELSE /\ deleted' = deleted \cup {product_id}
            /\ resp' = Ok("Product removed successfully")
            /\ UNCHANGED <<products, orders, issued>>

remove_product_cascade(product_id) ==
    /\ req' = Request("remove_product", JNull, product_id)
    /\ IF product_id \notin DOMAIN products
       THEN /\ resp' = Error(404, "Product not found")
            /\ UNCHANGED <<products, orders, issued, deleted>>
       ELSE /\ products' = DelItem(products, product_id)
            /\ orders' = [o \in {k \in DOMAIN orders : orders[k].d["product_id"].s # product_id}
                            |-> orders[o]]
            /\ deleted' = deleted \cup {product_id}
            /\ resp' = Ok("Product removed successfully")
            /\ UNCHANGED issued

remove_product(product_id) ==
    /\ req' = Request("remove_product", JNull, product_id)
    /\ IF product_id \notin DOMAIN products
       THEN /\ resp' = Error(404, "Product not found")
            /\ UNCHANGED <<products, orders, issued, deleted>>
       ELSE /\ products' = DelItem(products, product_id)
            /\ deleted' = deleted \cup {product_id}
            /\ resp' = Ok("Product removed successfully")
            /\ UNCHANGED <<orders, issued>>

(***************************************************************************)
(* POST /orders                                                            *)
(***************************************************************************)
place_order_store_first(body) ==
    /\ req' = Request("place_order", body, NoPath)
    /\ IF body = Unparseable
       THEN /\ resp' = Error(500, UnexpectedMsg)
            /\ UNCHANGED <<products, orders, issued, deleted>>
       ELSE \E order_id \in uuid4 :
            /\ orders' = SetItem(orders, order_id, body)
            /\ issued' = issued \cup {order_id}
            /\ resp' = IF validate_order(body) # NoError
                       THEN Error(400, validate_order(body))
                       ELSE Created("Order placed successfully", order_id)
            /\ UNCHANGED <<products, deleted>>

place_order(body) ==
    /\ req' = Request("place_order", body, NoPath)
    /\ IF body = Unparseable
       THEN /\ resp' = Error(500, UnexpectedMsg)
            /\ UNCHANGED <<products, orders, issued, deleted>>
       ELSE IF validate_order(body) # NoError
       THEN /\ resp' = Error(400, validate_order(body))
            /\ UNCHANGED <<products, orders, issued, deleted>>
       ELSE \E order_id \in uuid4 :
            /\ orders' = SetItem(orders, order_id, body)
            /\ issued' = issued \cup {order_id}
            /\ resp' = Created("Order placed successfully", order_id)
            /\ UNCHANGED <<products, deleted>>

(***************************************************************************)
(* DELETE /orders/<order_id>                                               *)
(***************************************************************************)
cancel_order_any_key(order_id) ==
    /\ req' = Request("cancel_order", JNull, order_id)
    /\ IF order_id \notin (DOMAIN orders \cup DOMAIN products)
       THEN /\ resp' = Error(404, "Order not found")
            /\ UNCHANGED <<products, orders, issued, deleted>>
       ELSE /\ orders' = DelItem(orders, order_id)
            /\ products' = DelItem(products, order_id)
            /\ resp' = Ok("Order cancelled successfully")
            /\ UNCHANGED <<issued, deleted>>

cancel_order(order_id) ==
    /\ req' = Request("cancel_order", JNull, order_id)
    /\ IF order_id \notin DOMAIN orders
       THEN /\ resp' = Error(404, "Order not found")
            /\ UNCHANGED <<products, orders, issued, deleted>>
       ELSE /\ orders' = DelItem(orders, order_id)
            /\ resp' = Ok("Order cancelled successfully")
            /\ UNCHANGED <<products, issued, deleted>>

(***************************************************************************)
(* GET /products, GET /orders                                              *)
(***************************************************************************)
list_products ==
    /\ req' = Request("list_products", JNull, NoPath)
    /\ resp' = Listing(products)
    /\ UNCHANGED <<products, orders, issued, deleted>>

list_orders ==
    /\ req' = Request("list_orders", JNull, NoPath)
    /\ resp' = Listing(orders)
    /\ UNCHANGED <<products, orders, issued, deleted>>

AddProduct == \E body \in ProductBodies : add_product(body)

RemoveProduct == \E product_id \in Paths : remove_product(product_id)

PlaceOrder == \E body \in OrderBodies : place_order(body)

CancelOrder == \E order_id \in Paths : cancel_order(order_id)

Next ==
    \/ AddProduct
    \/ RemoveProduct
    \/ PlaceOrder
    \/ CancelOrder
    \/ list_products
    \/ list_orders

Spec == Init /\ [][Next]_vars

(***************************************************************************)
(* The vocabulary of the properties: JSON types as a client sees them (a   *)
(* boolean is not a number, NaN is neither > 0 nor <= 0).                  *)
(***************************************************************************)
IsText(v) == v.t = "str"

IsNumber(v) == v.t \in {"int", "float", "float_nan"}

IsInteger(v) == v.t = "int"

IsPositive(v) == v.t \in {"int", "float"} /\ v.n > 0

IsNotPositive(v) == v.t \in {"int", "float"} /\ v.n <= 0

IsBlank(text) == \A i \in 1..Len(text) : text[i] \in Whitespace

HasFields(v, fields) == v.t = "dict" /\ fields \subseteq DOMAIN v.d

ProductFields == {"name", "price"}

OrderFields == {"product_id", "quantity"}

BadName(v) == ~IsText(v) \/ IsBlank(v.s)

BadPrice(v) == ~IsNumber(v) \/ IsNotPositive(v)

ValidProductPayload(v) ==
    /\ HasFields(v, ProductFields)
    /\ IsText(v.d["name"]) /\ ~IsBlank(v.d["name"].s)
    /\ IsNumber(v.d["price"]) /\ IsPositive(v.d["price"])

\* m2 is m1 with the one new key id, mapped to record.
AddsExactly(m1, m2, id, record) ==
    /\ id \notin DOMAIN m1
    /\ DOMAIN m2 = DOMAIN m1 \cup {id}
    /\ m2[id] = record
    /\ \A k \in DOMAIN m1 : m2[k] = m1[k]

\* m2 is m1 without the one key id.
RemovesExactly(m1, m2, id) ==
    /\ id \in DOMAIN m1
    /\ DOMAIN m2 = DOMAIN m1 \ {id}
    /\ \A k \in DOMAIN m2 : m2[k] = m1[k]

IsError(r, status, message) == r.status = status /\ r.key = "error" /\ r.text = message

\* C1: add-product with a valid payload returns 201 with an identifier never
\* issued before in the run; afterwards the product mapping is the old one
\* plus that identifier mapped to the submitted record, nothing else changed.
C1_AddValidProduct ==
    [][(req'.op = "add_product" /\ ValidProductPayload(req'.body)) =>
          /\ resp'.status = 201
          /\ resp'.key = "message"
          /\ resp'.id \notin issued
          /\ resp'.id \notin deleted
          /\ issued' = issued \cup {resp'.id}
          /\ AddsExactly(products, products', resp'.id, req'.body)
          /\ orders' = orders]_vars

\* A valid product was added after another product had been deleted.
C1_Witness ==
    /\ req.op = "add_product"
    /\ ValidProductPayload(req.body)
    /\ resp.status = 201
    /\ deleted # {}
    /\ resp.id \in DOMAIN products
    /\ products[resp.id] = req.body

\* C2: every add-product payload that is not a record with name and price, or
\* whose name is not text or is blank, or whose price is not a number or is
\* <= 0, gets 400 with the message of that rule and changes neither mapping.
C2_InvalidProductRejected ==
    [][(req'.op = "add_product" /\ req'.body # Unparseable) =>
          /\ ~HasFields(req'.body, ProductFields) =>
                /\ IsError(resp', 400, ProductShapeMsg)
                /\ products' = products /\ orders' = orders
          /\ (HasFields(req'.body, ProductFields) /\ BadName(req'.body.d["name"])) =>
                /\ IsError(resp', 400, ProductNameMsg)
                /\ products' = products /\ orders' = orders
          /\ (/\ HasFields(req'.body, ProductFields)
              /\ ~BadName(req'.body.d["name"])
              /\ BadPrice(req'.body.d["price"])) =>
                /\ IsError(resp', 400, ProductPriceMsg)
                /\ products' = products /\ orders' = orders]_vars

\* C3: remove-product of a present identifier returns 200 and removes that
\* identifier only; an identifier removed once is never a key again, and
\* every later remove-product of it returns 404 "Product not found" and
\* changes neither mapping.
C3_RemoveProductOnce ==
    [][/\ deleted \subseteq deleted'
       /\ deleted' \cap DOMAIN products' = {}
       /\ req'.op = "remove_product" =>
             IF req'.path \in DOMAIN products
             THEN /\ resp'.status = 200
                  /\ resp'.key = "message"
                  /\ RemovesExactly(products, products', req'.path)
                  /\ req'.path \in deleted'
                  /\ orders' = orders
             ELSE /\ IsError(resp', 404, "Product not found")
                  /\ products' = products
                  /\ orders' = orders
       /\ (req'.op = "remove_product" /\ req'.path \in deleted) =>
             IsError(resp', 404, "Product not found")]_vars

\* A second remove-product of an identifier, with another product added in
\* between, was answered 404.
C3_Witness ==
    /\ req.op = "remove_product"
    /\ req.path \in deleted
    /\ resp.status = 404
    /\ DOMAIN products # {}

\* C4: place-order with both fields whose product_id is not a current key of
\* the product mapping (never created, or deleted since) returns 400
\* "Invalid product ID" whatever the quantity, and stores nothing.
C4_UnknownProductRejected ==
    [][(/\ req'.op = "place_order"
        /\ HasFields(req'.body, OrderFields)
        /\ ~(/\ IsText(req'.body.d["product_id"])
             /\ req'.body.d["product_id"].s \in DOMAIN products)) =>
          /\ IsError(resp', 400, OrderProductMsg)
          /\ orders' = orders
          /\ products' = products]_vars

\* An order with a valid quantity for a deleted product was rejected.
C4_Witness ==
    /\ req.op = "place_order"
    /\ HasFields(req.body, OrderFields)
    /\ IsText(req.body.d["product_id"])
    /\ req.body.d["product_id"].s \in deleted
    /\ req.body.d["quantity"] = JInt(2)
    /\ IsError(resp, 400, OrderProductMsg)

\* C5: place-order for an existing product returns 400 "Order quantity must
\* be a positive integer" and stores nothing when quantity is not an integer
\* or is <= 0, and returns 201 with a fresh identifier mapped to the
\* submitted record when quantity is an integer > 0.
C5_QuantityDecides ==
    [][(/\ req'.op = "place_order"
        /\ HasFields(req'.body, OrderFields)
        /\ IsText(req'.body.d["product_id"])
        /\ req'.body.d["product_id"].s \in DOMAIN products) =>
          IF IsInteger(req'.body.d["quantity"]) /\ IsPositive(req'.body.d["quantity"])
          THEN /\ resp'.status = 201
               /\ resp'.id \notin issued
               /\ AddsExactly(orders, orders', resp'.id, req'.body)
          ELSE /\ IsError(resp', 400, OrderQuantityMsg)
               /\ orders' = orders]_vars

\* C6: remove-product, whether it answers 200 or 404, leaves the order
\* mapping as it was: orders of the deleted product stay.
C6_NoCascade ==
    [][req'.op = "remove_product" => orders' = orders]_vars

\* A product was removed and an order naming it is still stored.
C6_Witness ==
    /\ req.op = "remove_product"
    /\ resp.status = 200
    /\ \E o \in DOMAIN orders :
          /\ orders[o].d["product_id"] = JStr(req.path)
          /\ orders[o].d["quantity"] = JInt(2)

\* C7: validation reports the first violated rule only: the shape message if
\* a field is missing, else the message of the first field (name,
\* product_id) if that field is invalid whatever the second field is, and a
\* 400 with neither of these violated carries the second field's message.
C7_FirstViolationOnly ==
    [][/\ (req'.op = "add_product" /\ req'.body # Unparseable) =>
             IF ~HasFields(req'.body, ProductFields)
             THEN IsError(resp', 400, ProductShapeMsg)
             ELSE IF BadName(req'.body.d["name"])
             THEN IsError(resp', 400, ProductNameMsg)
             ELSE resp'.status = 400 => IsError(resp', 400, ProductPriceMsg)
       /\ (req'.op = "place_order" /\ req'.body # Unparseable) =>
             IF ~HasFields(req'.body, OrderFields)
             THEN IsError(resp', 400, OrderShapeMsg)
             ELSE IF ~(/\ IsText(req'.body.d["product_id"])
                       /\ req'.body.d["product_id"].s \in DOMAIN products)
             THEN IsError(resp', 400, OrderProductMsg)
             ELSE resp'.status = 400 => IsError(resp', 400, OrderQuantityMsg)]_vars

\* A product payload with a blank name and a price of 0 got the name message.
C7_Witness ==
    /\ req.op = "add_product"
    /\ HasFields(req.body, ProductFields)
    /\ BadName(req.body.d["name"])
    /\ BadPrice(req.body.d["price"])
    /\ IsError(resp, 400, ProductNameMsg)

\* C8: cancel-order of a present order identifier returns 200 and removes
\* that identifier only; of any other identifier it returns 404 "Order not
\* found" and leaves the order mapping alone; the product mapping never
\* changes.
C8_CancelOrder ==
    [][req'.op = "cancel_order" =>
          /\ products' = products
          /\ IF req'.path \in DOMAIN orders
             THEN /\ resp'.status = 200
                  /\ resp'.key = "message"
                  /\ RemovesExactly(orders, orders', req'.path)
             ELSE /\ IsError(resp', 404, "Order not found")
                  /\ orders' = orders]_vars

\* cancel-order of a product's identifier was answered 404.
C8_Witness ==
    /\ req.op = "cancel_order"
    /\ req.path \in DOMAIN products
    /\ DOMAIN orders # {}
    /\ IsError(resp, 404, "Order not found")

\* C9: a 201 adds exactly one new key to the mapping of its kind, a 200
\* delete removes exactly one key of its mapping, and every 400, 404, 500 and
\* every listing (always 200 with the whole current mapping) leaves both
\* mappings as they were.
C9_OneMutation ==
    [][/\ resp'.status \in {200, 201, 400, 404, 500}
       /\ resp'.status = 201 =>
             \/ /\ req'.op = "add_product"
                /\ AddsExactly(products, products', resp'.id, products'[resp'.id])
                /\ orders' = orders
             \/ /\ req'.op = "place_order"
                /\ AddsExactly(orders, orders', resp'.id, orders'[resp'.id])
                /\ products' = products
       /\ (resp'.status = 200 /\ req'.op = "remove_product") =>
             /\ RemovesExactly(products, products', req'.path)
             /\ orders' = orders
       /\ (resp'.status = 200 /\ req'.op = "cancel_order") =>
             /\ RemovesExactly(orders, orders', req'.path)
             /\ products' = products
       /\ resp'.status \in {400, 404, 500} =>
             /\ products' = products
             /\ orders' = orders
       /\ req'.op = "list_products" =>
             /\ resp' = Listing(products)
             /\ products' = products
             /\ orders' = orders
       /\ req'.op = "list_orders" =>
             /\ resp' = Listing(orders)
             /\ products' = products
             /\ orders' = orders]_vars

\* An unparseable body was answered 500 with both mappings non-empty.
C9_Witness ==
    /\ resp.status = 500
    /\ DOMAIN products # {}
    /\ DOMAIN orders # {}

\* C10: every stored product has a text name that is not blank and a price
\* > 0; every stored order has an integer quantity > 0 and a text product_id
\* that is or was a key of the product mapping.
C10_StoredRecordsValid ==
    /\ \A p \in DOMAIN products :
          /\ HasFields(products[p], ProductFields)
          /\ IsText(products[p].d["name"]) /\ ~IsBlank(products[p].d["name"].s)
          /\ IsPositive(products[p].d["price"])
    /\ \A o \in DOMAIN orders :
          /\ HasFields(orders[o], OrderFields)
          /\ IsInteger(orders[o].d["quantity"]) /\ IsPositive(orders[o].d["quantity"])
          /\ IsText(orders[o].d["product_id"])
          /\ orders[o].d["product_id"].s \in (DOMAIN products \cup deleted)

====
